---- MODULE Spec2Model ----
(***************************************************************************)
(* wbdata.fetcher: the disk-persisted response cache (class Cache, the     *)
(* module-level CACHE and TODAY), the bounded-retry transport              *)
(* (get_json_from_url), the page fetcher (get_response) and the paginator  *)
(* (fetch).                                                                *)
(***************************************************************************)
EXTENDS Integers, Sequences, FiniteSets, TLC

(***************************************************************************)
(* Program constants (fetcher.py lines 18-21).                             *)
(***************************************************************************)
EXP == 7
PER_PAGE == 1000
\* A retry loop that runs once more.
TRIES_one_more == 5 + 1
TRIES == 5

(***************************************************************************)
(* Bounds of the model.                                                    *)
(***************************************************************************)
MaxDay == 8
MaxStores == 2
MaxRuns == 3

Procs == {1, 2}

(***************************************************************************)
(* Python values.  A value carries its type tag, so that "1" and 1 are     *)
(* different values, as they are for Python's == and !=.                   *)
(***************************************************************************)
PyInt(n) == [t |-> "int", v |-> n]
PyStr(s) == [t |-> "str", v |-> s]

(***************************************************************************)
(* dict: Python dicts keep insertion order, so a dict of GET arguments is  *)
(* a sequence of <<name, value>> pairs with pairwise different names.      *)
(***************************************************************************)
DictNames(d) == {d[i][1] : i \in DOMAIN d}

DictGet(d, name) == d[CHOOSE i \in DOMAIN d : d[i][1] = name][2]

DictSet(d, name, val) ==
    IF name \in DictNames(d)
    THEN [i \in DOMAIN d |-> IF d[i][1] = name THEN <<name, val>> ELSE d[i]]
    ELSE Append(d, <<name, val>>)

(***************************************************************************)
(* sorted(args.items()): the names are strings, compared as Python         *)
(* compares them; ParamNames lists the names of the model in that order.   *)
(* Names are unique in a dict, so the values are never compared.           *)
(***************************************************************************)
ParamNames == <<"date", "format", "page", "per_page", "source">>

NameRank(name) == CHOOSE i \in DOMAIN ParamNames : ParamNames[i] = name

RECURSIVE InsertSorted(_, _)
InsertSorted(item, s) ==
    IF s = <<>> THEN <<item>>
    ELSE IF NameRank(item[1]) < NameRank(Head(s)[1])
         THEN <<item>> \o s
         ELSE <<Head(s)>> \o InsertSorted(item, Tail(s))

RECURSIVE sorted(_)
sorted(items) ==
    IF items = <<>> THEN <<>>
    ELSE InsertSorted(Head(items), sorted(Tail(items)))

\* A key built from the items in the order of the dict.
CacheKey_unsorted(url, args) == <<url, args>>

\* get_response, line 95: key = (url, tuple(sorted(args.items())))
CacheKey(url, args) == <<url, sorted(args)>>

(***************************************************************************)
(* Mappings (self.cache, and the pickled dict in the file).                *)
(***************************************************************************)
EmptyMap == [k \in {} |-> <<>>]

MapPut(m, k, e) == [x \in (DOMAIN m) \cup {k} |-> IF x = k THEN e ELSE m[x]]

(***************************************************************************)
(* The backing file.  kind is what open()/pickle.load() meet:              *)
(*   absent      open raises FileNotFoundError (an IOError)                *)
(*   unreadable  open raises PermissionError (an IOError)                  *)
(*   empty       zero bytes: pickle.load raises EOFError                   *)
(*   boundary    a pickle cut between two opcodes (after the two bytes of  *)
(*               PROTO): pickle.load raises EOFError                       *)
(*   truncated   a pickle cut inside an opcode or a frame: pickle.load     *)
(*               raises UnpicklingError                                    *)
(*   garbage     not a pickle: pickle.load raises UnpicklingError          *)
(*   overlong    bytes that pickle.load takes for the length of a frame or *)
(*               of a string larger than the memory: it raises MemoryError *)
(*   shape       a pickle of something that is no dict: .items() raises    *)
(*               AttributeError                                            *)
(*   nonpair     a pickle of a dict with a value that cannot be unpacked:  *)
(*               the comprehension raises TypeError                        *)
(*   triple      a pickle of a dict with a value of three items: the       *)
(*               comprehension raises ValueError                           *)
(*   ok          the pickle of a dict key -> (date, body), in store        *)
(***************************************************************************)
FileKinds ==
    {"absent", "unreadable", "empty", "boundary", "truncated", "garbage", "overlong",
     "shape", "nonpair", "triple", "ok"}

File(kind, store) == [kind |-> kind, store |-> store]

\* The exception the try block of Cache.__init__ raises, "none" if none.
LoadError(f) ==
    CASE f.kind = "absent"     -> "IOError"
      [] f.kind = "unreadable" -> "IOError"
      [] f.kind = "empty"      -> "EOFError"
      [] f.kind = "boundary"   -> "EOFError"
      [] f.kind = "truncated"  -> "UnpicklingError"
      [] f.kind = "garbage"    -> "UnpicklingError"
      [] f.kind = "overlong"   -> "MemoryError"
      [] f.kind = "shape"      -> "AttributeError"
      [] f.kind = "nonpair"    -> "TypeError"
      [] f.kind = "triple"     -> "ValueError"
      [] OTHER                 -> "none"

\* A load that keeps an entry dated exactly EXP days before today.
Unexpired_seven_kept(store, today) ==
    [k \in {x \in DOMAIN store : today - store[x][1] <= EXP} |-> store[k]]

\* A load that keeps every entry, whatever its age.
Unexpired_keeps_all(store, today) == store

\* Line 45: the entries a load keeps.
Unexpired(store, today) ==
    [k \in {x \in DOMAIN store : today - store[x][1] < EXP} |-> store[k]]

\* What line 39, self.path.parent.mkdir(parents=True, exist_ok=True), meets:
\* "ok", the directory is there or is made; "isfile", its path is a file;
\* "notdir", a directory above it is a file; "denied", a directory above it
\* cannot be searched or written.
DirOutcomes == {"ok", "isfile", "notdir", "denied"}

\* The exception line 39 raises, "none" if none.  It is raised before the
\* try of line 40.
MkdirError(dir) ==
    CASE dir = "isfile" -> "FileExistsError"
      [] dir = "notdir" -> "NotADirectoryError"
      [] dir = "denied" -> "PermissionError"
      [] OTHER          -> "none"

\* Cache.__init__: the loaded self.cache, or the exception that escapes.
Cache_init(dir, f, today) ==
    LET err == LoadError(f) IN
    IF MkdirError(dir) # "none" THEN [raised |-> MkdirError(dir), cache |-> EmptyMap]
    ELSE IF err = "none" THEN [raised |-> "none", cache |-> Unexpired(f.store, today)]
    ELSE IF err \in {"IOError", "EOFError"} THEN [raised |-> "none", cache |-> EmptyMap]
    ELSE [raised |-> err, cache |-> EmptyMap]

\* Cache.__getitem__
Cache_getitem(cache, key) == cache[key][2]

\* Cache.__contains__
Cache_contains(cache, key) == key \in DOMAIN cache

(***************************************************************************)
(* Cache.sync: open("wb") truncates the file, then pickle.dump writes the  *)
(* whole dict.  io is what the storage does: "ok"; "openfail", open raises *)
(* an IOError and the file is as before; and a write that raises an        *)
(* IOError after the truncation: "writenone" before any byte is written    *)
(* (the file is left empty), "writecut" between two opcodes, "writefail"   *)
(* inside an opcode.                                                       *)
(***************************************************************************)
SyncOutcomes == {"ok", "openfail", "writenone", "writecut", "writefail"}

\* Line 61: the open.
SyncOpen(f, io) ==
    IF io = "openfail" THEN [raised |-> "IOError", file |-> f]
    ELSE [raised |-> "none", file |-> File("empty", EmptyMap)]

\* Line 62: the dump into the file f the open has left.
SyncDump(cache, f, io) ==
    CASE io = "ok"        -> [raised |-> "none", file |-> File("ok", cache)]
      [] io = "writenone" -> [raised |-> "IOError", file |-> f]
      [] io = "writecut"  -> [raised |-> "IOError", file |-> File("boundary", EmptyMap)]
      [] io = "writefail" -> [raised |-> "IOError", file |-> File("truncated", EmptyMap)]

\* Cache.sync, from the open to the close.
Cache_sync(cache, f, io) ==
    LET o == SyncOpen(f, io) IN
    IF o.raised # "none" THEN o ELSE SyncDump(cache, o.file, io)

\* A __setitem__ that first takes into the memory the entries of the file
\* it does not hold.
Cache_setitem_merging(cache, key, value, today, f, io) ==
    LET m == [k \in DOMAIN f.store \cup DOMAIN cache |->
                 IF k \in DOMAIN cache THEN cache[k] ELSE f.store[k]]
        c == MapPut(m, key, <<today, value>>)
        s == Cache_sync(c, f, io)
    IN  [raised |-> s.raised, cache |-> c, file |-> s.file]

\* Cache.__setitem__: the entry is set in memory, then the file is synced.
Cache_setitem(cache, key, value, today, f, io) ==
    LET c == MapPut(cache, key, <<today, value>>)
        s == Cache_sync(c, f, io)
    IN  [raised |-> s.raised, cache |-> c, file |-> s.file]

(***************************************************************************)
(* Parsed JSON, as json.loads returns it: list, dict (a function on its    *)
(* keys), None, int and str.  A str is the sequence of its characters.     *)
(***************************************************************************)
\* The names of the fields of the documents of the model, and each name as
\* a str.
FieldNames == <<"page", "pages", "lastupdated", "message", "id", "key", "value">>

FieldStr(name) ==
    CASE name = "page"        -> <<"p", "a", "g", "e">>
      [] name = "pages"       -> <<"p", "a", "g", "e", "s">>
      [] name = "lastupdated" -> <<"l", "a", "s", "t", "u", "p", "d", "a", "t", "e", "d">>
      [] name = "message"     -> <<"m", "e", "s", "s", "a", "g", "e">>
      [] name = "id"          -> <<"i", "d">>
      [] name = "key"         -> <<"k", "e", "y">>
      [] name = "value"       -> <<"v", "a", "l", "u", "e">>

\* The names of f in the order of FieldNames, from the i-th on.
RECURSIVE NamesFrom(_, _)
NamesFrom(f, i) ==
    IF i > Len(FieldNames) THEN <<>>
    ELSE (IF FieldNames[i] \in DOMAIN f THEN <<FieldNames[i]>> ELSE <<>>)
            \o NamesFrom(f, i + 1)

\* A dict has its keys in the order in which the text gave them: k is
\* that order, v the value under each key.  JObj is the dict of a text
\* that gives the keys in the order keys, JDict that of a text that gives
\* them in the order of FieldNames.
JList(s) == [t |-> "list", v |-> s]
JObj(keys, f) == [t |-> "dict", v |-> f, k |-> keys]
JDict(f) == JObj(NamesFrom(f, 1), f)
JInt(n) == [t |-> "int", v |-> n]
JStr(s) == [t |-> "str", v |-> s]
JNull == [t |-> "null", v |-> 0]

\* A value without the order of the keys of its dicts.
RECURSIVE Unordered(_)
Unordered(x) ==
    CASE x.t = "dict" -> [t |-> "dict", v |-> [n \in DOMAIN x.v |-> Unordered(x.v[n])]]
      [] x.t = "list" -> [t |-> "list", v |-> [i \in DOMAIN x.v |-> Unordered(x.v[i])]]
      [] OTHER        -> x

\* Python == on two such values: equal type, equal content; the order of
\* the keys of a dict does not count.
PyEq(a, b) == Unordered(a) = Unordered(b)

Ok(x) == [exc |-> "none", val |-> x]
Raise(e) == [exc |-> e, val |-> JNull]

\* x[i] for an int i (0-based): list and str index, a JSON dict has no int
\* key, None and int are not subscriptable.
GetItem(x, i) ==
    CASE x.t = "list" -> IF i < Len(x.v) THEN Ok(x.v[i + 1]) ELSE Raise("IndexError")
      [] x.t = "str"  -> IF i < Len(x.v) THEN Ok(JStr(<<x.v[i + 1]>>)) ELSE Raise("IndexError")
      [] x.t = "dict" -> Raise("KeyError")
      [] OTHER        -> Raise("TypeError")

\* x[name] for a str name: dict lookup; list and str take no str index.
GetKey(x, name) ==
    CASE x.t = "dict" -> IF name \in DOMAIN x.v THEN Ok(x.v[name]) ELSE Raise("KeyError")
      [] OTHER        -> Raise("TypeError")

\* Iterating a dict gives its keys, in their order.
KeysFrom(d) == [i \in DOMAIN d.k |-> JStr(FieldStr(d.k[i]))]

\* What list.extend(x) appends: the items of a list, the characters of a
\* str, the keys of a dict; None and int are not iterable.
Iterate(x) ==
    CASE x.t = "list" -> [exc |-> "none", items |-> x.v]
      [] x.t = "str"  -> [exc |-> "none", items |-> [i \in DOMAIN x.v |-> JStr(<<x.v[i]>>)]]
      [] x.t = "dict" -> [exc |-> "none", items |-> KeysFrom(x)]
      [] OTHER        -> [exc |-> "TypeError", items |-> <<>>]

(***************************************************************************)
(* str.strip(), int(), datetime.strptime(_, "%Y-%m-%d").                   *)
(***************************************************************************)
\* The characters of the model are those of ASCII.  VT is the vertical tab
\* and FS, GS, RS, US are the separators 0x1c to 0x1f, written as they are.
VT == ""
FS == ""
GS == ""
RS == ""
US == ""

\* What str.strip() removes on both sides.
Whitespace == {" ", "\t", "\n", "\r", "\f", VT, FS, GS, RS, US}

\* What int() skips on both sides of a str: the separators are not among it.
IntWhitespace == {" ", "\t", "\n", "\r", "\f", VT}
Digits == <<"0", "1", "2", "3", "4", "5", "6", "7", "8", "9">>
IsDigit(c) == \E i \in DOMAIN Digits : Digits[i] = c
DigitVal(c) == (CHOOSE i \in DOMAIN Digits : Digits[i] = c) - 1

RECURSIVE LStrip(_)
LStrip(s) == IF s # <<>> /\ Head(s) \in Whitespace THEN LStrip(Tail(s)) ELSE s

RECURSIVE RStrip(_)
RStrip(s) ==
    IF s # <<>> /\ s[Len(s)] \in Whitespace THEN RStrip(SubSeq(s, 1, Len(s) - 1)) ELSE s

\* A strip of the leading whitespace only.
strip_left_only(s) == LStrip(s)

strip(s) == RStrip(LStrip(s))

RECURSIVE DecimalVal(_)
DecimalVal(s) ==
    IF s = <<>> THEN 0 ELSE 10 * DecimalVal(SubSeq(s, 1, Len(s) - 1)) + DigitVal(s[Len(s)])

AllDigits(s) == s # <<>> /\ \A i \in DOMAIN s : IsDigit(s[i])

RECURSIVE IntLStrip(_)
IntLStrip(s) == IF s # <<>> /\ Head(s) \in IntWhitespace THEN IntLStrip(Tail(s)) ELSE s

RECURSIVE IntRStrip(_)
IntRStrip(s) ==
    IF s # <<>> /\ s[Len(s)] \in IntWhitespace
    THEN IntRStrip(SubSeq(s, 1, Len(s) - 1)) ELSE s

\* The digits of an int literal: decimal digits, with single underscores
\* between two of them.
IsDigitGroup(s) ==
    /\ s # <<>>
    /\ \A i \in DOMAIN s : IsDigit(s[i]) \/ s[i] = "_"
    /\ IsDigit(s[1]) /\ IsDigit(s[Len(s)])
    /\ \A i \in 1..(Len(s) - 1) : ~ (s[i] = "_" /\ s[i + 1] = "_")

RECURSIVE WithoutUnderscores(_)
WithoutUnderscores(s) ==
    IF s = <<>> THEN <<>>
    ELSE (IF Head(s) = "_" THEN <<>> ELSE <<Head(s)>>) \o WithoutUnderscores(Tail(s))

\* int(x) for an int, or a str: whitespace around, one sign at most, then
\* the digits.
int(x) ==
    CASE x.t = "int" -> [exc |-> "none", n |-> x.v]
      [] x.t = "str" ->
            LET t == IntRStrip(IntLStrip(x.v))
                signed == t # <<>> /\ Head(t) \in {"+", "-"}
                g == IF signed THEN Tail(t) ELSE t
            IN  IF IsDigitGroup(g)
                THEN [exc |-> "none",
                      n |-> IF signed /\ Head(t) = "-"
                            THEN 0 - DecimalVal(WithoutUnderscores(g))
                            ELSE DecimalVal(WithoutUnderscores(g))]
                ELSE [exc |-> "ValueError", n |-> 0]
      [] OTHER       -> [exc |-> "TypeError", n |-> 0]

IsLeap(y) == (y % 4 = 0 /\ y % 100 # 0) \/ y % 400 = 0

DaysInMonth(y, m) ==
    IF m = 2 THEN (IF IsLeap(y) THEN 29 ELSE 28)
    ELSE IF m \in {4, 6, 9, 11} THEN 30 ELSE 31

\* What %m matches: 1 to 12, a leading zero allowed below 10.
IsMonthStr(s) ==
    \/ Len(s) = 1 /\ IsDigit(s[1]) /\ s[1] # "0"
    \/ Len(s) = 2 /\ AllDigits(s) /\ DecimalVal(s) \in 1..12

\* What %d matches: 1 to 31, a leading zero or a leading blank allowed
\* below 10.
IsDayStr(s) ==
    \/ Len(s) = 1 /\ IsDigit(s[1]) /\ s[1] # "0"
    \/ Len(s) = 2 /\ AllDigits(s) /\ DecimalVal(s) \in 1..31
    \/ Len(s) = 2 /\ s[1] = " " /\ IsDigit(s[2]) /\ s[2] # "0"

\* datetime.strptime(x, "%Y-%m-%d"): %Y is four digits, then a dash, %m, a
\* dash and %d to the end of the str; the date must exist.
strptime(x) ==
    IF x.t # "str" THEN [exc |-> "TypeError", date |-> <<>>]
    ELSE LET s == x.v
             ends == {j \in 7..8 : j <= Len(s) /\ s[j] = "-"
                                   /\ IsMonthStr(SubSeq(s, 6, j - 1))}
         IN  IF /\ Len(s) >= 8
                /\ AllDigits(SubSeq(s, 1, 4))
                /\ s[5] = "-"
                /\ ends # {}
             THEN LET j == CHOOSE e \in ends : TRUE
                      y == DecimalVal(SubSeq(s, 1, 4))
                      m == DecimalVal(SubSeq(s, 6, j - 1))
                      ds == SubSeq(s, j + 1, Len(s))
                      d == DecimalVal(IF ds # <<>> /\ Head(ds) = " " THEN Tail(ds) ELSE ds)
                  IN  IF IsDayStr(ds) /\ y >= 1 /\ d <= DaysInMonth(y, m)
                      THEN [exc |-> "none", date |-> <<y, m, d>>]
                      ELSE [exc |-> "ValueError", date |-> <<>>]
             ELSE [exc |-> "ValueError", date |-> <<>>]

(***************************************************************************)
(* A response body is text; json.loads parses it or raises.  A body that   *)
(* is JSON is written by the document it encodes.                          *)
(***************************************************************************)
Text(doc) == [wf |-> TRUE, doc |-> doc]
Malformed == [wf |-> FALSE, doc |-> JNull]

json_loads(body) == IF body.wf THEN Ok(body.doc) ELSE Raise("JSONDecodeError")

(***************************************************************************)
(* fetch, lines 125-140: one parsed response taken into the walk.  The     *)
(* outcome is the new results, this_page and pages, or the exception that  *)
(* leaves fetch, with what it carries (the message of an API error, the    *)
(* dumped response of an unexpected one).                                  *)
(***************************************************************************)
ApiError == "RuntimeError: Got error"
UnexpectedResponse == "RuntimeError: Got unexpected response"
ConnectivityError == "RuntimeError: Couldn't connect to API"

StepOk(res, p, q) ==
    [exc |-> "none", results |-> res, this_page |-> p, pages |-> q, detail |-> JNull]
StepRaise(e, d) ==
    [exc |-> e, results |-> <<>>, this_page |-> JNull, pages |-> JNull, detail |-> d]

\* "Got error {id} ({key}): {value}".format(**message)
FormatMessage(message) ==
    IF message.t # "dict" THEN Raise("TypeError")
    ELSE IF {"id", "key", "value"} \subseteq DOMAIN message.v
         THEN Ok(JDict([f \in {"id", "key", "value"} |-> message.v[f]]))
         ELSE Raise("KeyError")

\* Lines 129-140: the handler of (IndexError, KeyError).
ErrorBranch(resp) ==
    LET m0 == GetItem(resp, 0) IN
    IF m0.exc = "TypeError" THEN StepRaise("TypeError", JNull)
    ELSE IF m0.exc # "none" THEN StepRaise(UnexpectedResponse, resp)
    ELSE LET m1 == GetKey(m0.val, "message") IN
    IF m1.exc = "TypeError" THEN StepRaise("TypeError", JNull)
    ELSE IF m1.exc # "none" THEN StepRaise(UnexpectedResponse, resp)
    ELSE LET m2 == GetItem(m1.val, 0) IN
    IF m2.exc = "TypeError" THEN StepRaise("TypeError", JNull)
    ELSE IF m2.exc # "none" THEN StepRaise(UnexpectedResponse, resp)
    ELSE LET msg == FormatMessage(m2.val) IN
    IF msg.exc = "TypeError" THEN StepRaise("TypeError", JNull)
    ELSE IF msg.exc # "none" THEN StepRaise(UnexpectedResponse, resp)
    ELSE StepRaise(ApiError, msg.val)

\* Lines 125-128, with the handler.
PageStep(res, resp) ==
    LET r1 == GetItem(resp, 1) IN
    IF r1.exc = "TypeError" THEN StepRaise("TypeError", JNull)
    ELSE IF r1.exc # "none" THEN ErrorBranch(resp)
    ELSE LET it == Iterate(r1.val) IN
    IF it.exc # "none" THEN StepRaise("TypeError", JNull)
    ELSE LET e0 == GetItem(resp, 0)
             p == GetKey(e0.val, "page")
             q == GetKey(e0.val, "pages")
         IN
    IF p.exc = "TypeError" THEN StepRaise("TypeError", JNull)
    ELSE IF p.exc # "none" \/ q.exc # "none" THEN ErrorBranch(resp)
    ELSE StepOk(res \o it.items, p.val, q.val)

\* Lines 143-145: strip the id of every record that has one.  "id" in i is
\* a key test on a dict, a membership test on a list, a substring test on a
\* str (the items of the model that are str are single characters), and a
\* TypeError on None and int; i["id"].strip() needs a str.
StripError(i) ==
    CASE i.t = "dict" -> IF "id" \in DOMAIN i.v /\ i.v["id"].t # "str"
                         THEN "AttributeError" ELSE "none"
      [] i.t = "str"  -> IF \E j \in 1..(Len(i.v) - 1) : i.v[j] = "i" /\ i.v[j + 1] = "d"
                         THEN "TypeError" ELSE "none"
      [] i.t = "list" -> IF \E j \in DOMAIN i.v : PyEq(i.v[j], JStr(<<"i", "d">>))
                         THEN "TypeError" ELSE "none"
      [] OTHER        -> "TypeError"

StripId(i) ==
    IF i.t = "dict" /\ "id" \in DOMAIN i.v
    THEN [i EXCEPT !.v["id"] = JStr(strip(i.v["id"].v))]
    ELSE i

StripIds(res) ==
    IF \E i \in DOMAIN res : StripError(res[i]) # "none"
    THEN [exc |-> StripError(res[CHOOSE i \in DOMAIN res :
                                    /\ StripError(res[i]) # "none"
                                    /\ \A j \in 1..(i - 1) : StripError(res[j]) = "none"]),
          results |-> <<>>]
    ELSE [exc |-> "none", results |-> [i \in DOMAIN res |-> StripId(res[i])]]

\* Lines 146-153: last_updated of the result; NoDate is None.
NoDate == <<>>

LastUpdated(resp) ==
    LET lu == GetKey(GetItem(resp, 0).val, "lastupdated") IN
    IF lu.exc = "KeyError" THEN [exc |-> "none", date |-> NoDate]
    ELSE strptime(lu.val)

(***************************************************************************)
(* The remote API.  A synthetic server is named by its kind and its number *)
(* of pages n; Api gives the body it answers to a request for page k (the  *)
(* page argument of the request, 1 when there is none).                    *)
(***************************************************************************)
MaxPages == 3

Chars(k) == <<"A", "B", "C", "D", "E", "F", "G", "H">>[k]

\* Record j of page k.  The ids carry the blanks the source strips; the
\* second record of a page has no id.
Record(k, j) ==
    IF j = 2 THEN JDict([value |-> JInt(10 * k + j)])
    ELSE CASE k = 1 -> JDict([id |-> JStr(<<" ", "A", " ">>), value |-> JInt(11)])
           [] k = 2 -> JDict([id |-> JStr(<<"B", " ", "C", "\t">>), value |-> JInt(21)])
           [] k = 3 -> JDict([id |-> JStr(<<" ", " ">>), value |-> JInt(31)])
           [] OTHER -> JDict([id |-> JStr(<<Chars(k)>>), value |-> JInt(10 * k + j)])

\* Pages before the last hold two records, the last page one, and a page
\* past the last none.
PageRecords(k, n) ==
    IF k < n THEN <<Record(k, 1), Record(k, 2)>>
    ELSE IF k = n THEN <<Record(k, 1)>> ELSE <<>>

DateStr == <<"2", "0", "2", "0", "-", "0", "3", "-", "1", "5">>
BadDateStr == <<"2", "0", "2", "0", "-", "1", "3", "-", "4", "5">>
SlashDateStr == <<"1", "5", "/", "0", "3", "/", "2", "0", "2", "0">>

DigitStr(n) == <<Digits[n + 1]>>

ErrorMessage ==
    JDict([id |-> JStr(<<"1", "2", "0">>),
           key |-> JStr(<<"I", "n", "v", "a", "l", "i", "d">>),
           value |-> JStr(<<"b", "a", "d">>)])

Page(k, n) ==
    JList(<<JDict([page |-> JInt(k), pages |-> JInt(n), lastupdated |-> JStr(DateStr)]),
            JList(PageRecords(k, n))>>)

PageLu(k, n, lu) ==
    JList(<<JDict([page |-> JInt(k), pages |-> JInt(n), lastupdated |-> lu]),
            JList(PageRecords(k, n))>>)

ApiKinds ==
    {"nolu", "badlu", "slashlu", "nulllu", "str", "mixed", "shrink",
     "zero", "error", "err2", "nokey", "emptymsg", "strmsg", "emptylist",
     "object", "nullrecs", "norecs", "nopages", "msgpage", "malformed",
     "drop", "intid", "dictrecs", "keyrecs"}

Apis == {[kind |-> "wb", n |-> n] : n \in 1..MaxPages}
          \cup {[kind |-> a, n |-> 2] : a \in ApiKinds}

Api(a, k) ==
    CASE a.kind = "wb"      -> Text(Page(k, a.n))
      [] a.kind = "nolu"    -> Text(JList(<<JDict([page |-> JInt(k), pages |-> JInt(a.n)]),
                                            JList(PageRecords(k, a.n))>>))
      [] a.kind = "badlu"   -> Text(PageLu(k, a.n, JStr(BadDateStr)))
      [] a.kind = "slashlu" -> Text(PageLu(k, a.n, JStr(SlashDateStr)))
      [] a.kind = "nulllu"  -> Text(PageLu(k, a.n, JNull))
      [] a.kind = "str"     -> Text(JList(<<JDict([page |-> JStr(DigitStr(k)),
                                                   pages |-> JStr(DigitStr(a.n))]),
                                            JList(PageRecords(k, a.n))>>))
      [] a.kind = "mixed"   -> Text(JList(<<JDict([page |-> JStr(DigitStr(k)),
                                                   pages |-> JInt(a.n)]),
                                            JList(PageRecords(k, a.n))>>))
      [] a.kind = "shrink"  -> Text(Page(k, IF k = 1 THEN a.n + 1 ELSE a.n))
      [] a.kind = "zero"    -> Text(JList(<<JDict([page |-> JInt(0), pages |-> JInt(0)]),
                                            JList(<<>>)>>))
      [] a.kind = "error"   -> Text(JList(<<JDict([message |-> JList(<<ErrorMessage>>)])>>))
      [] a.kind = "err2"    -> IF k < a.n THEN Text(Page(k, a.n))
                               ELSE Text(JList(<<JDict([message |-> JList(<<ErrorMessage>>)])>>))
      [] a.kind = "nokey"   -> Text(JList(<<JDict([message |->
                                    JList(<<JDict([id |-> JStr(<<"1">>),
                                                   value |-> JStr(<<"b">>)])>>)])>>))
      [] a.kind = "emptymsg" -> Text(JList(<<JDict([message |-> JList(<<>>)])>>))
      [] a.kind = "strmsg"  -> Text(JList(<<JDict([message |-> JStr(<<"b", "a", "d">>)])>>))
      [] a.kind = "emptylist" -> Text(JList(<<>>))
      [] a.kind = "object"  -> Text(JDict([message |-> JList(<<ErrorMessage>>)]))
      [] a.kind = "nullrecs" -> Text(JList(<<JDict([page |-> JInt(0), pages |-> JInt(0)]),
                                             JNull>>))
      [] a.kind = "norecs"  -> Text(JList(<<JDict([page |-> JInt(k), pages |-> JInt(a.n)])>>))
      [] a.kind = "nopages" -> Text(JList(<<JDict([page |-> JInt(k)]),
                                            JList(PageRecords(k, a.n))>>))
      [] a.kind = "msgpage" -> Text(JList(<<JDict([page |-> JInt(k),
                                                   message |-> JList(<<ErrorMessage>>)]),
                                            JList(PageRecords(k, a.n))>>))
      [] a.kind = "malformed" -> Malformed
      [] a.kind = "drop"    -> Text(Page(k, IF k = 1 THEN a.n ELSE a.n - 1))
      [] a.kind = "intid"   -> Text(JList(<<JDict([page |-> JInt(1), pages |-> JInt(1)]),
                                            JList(<<Record(1, 1),
                                                    JDict([id |-> JInt(7)])>>)>>))
      [] a.kind = "dictrecs" -> Text(JList(<<JDict([page |-> JInt(1), pages |-> JInt(1)]),
                                             Record(1, 1)>>))
      [] a.kind = "keyrecs" -> Text(JList(<<JObj(<<"pages", "page">>,
                                                 [page |-> JInt(1), pages |-> JInt(1)]),
                                            JObj(<<"value", "key">>,
                                                 [value |-> JInt(1), key |-> JInt(2)])>>))

(***************************************************************************)
(* State.                                                                  *)
(*   day         the calendar day (an ordinal)                             *)
(*   file        the backing file of the cache                             *)
(*   written     the stores whose pickles the file holds bytes of, while   *)
(*               a sync is in progress; empty when none is, as the next    *)
(*               open truncates the file                                   *)
(*   alive       per process: "none" (not running), "loading" (in         *)
(*               Cache.__init__, the file open for reading), "up" (fetcher *)
(*               imported, CACHE built), "nodir" (the import raised at     *)
(*               line 39), "crashed" (the import raised in the load)       *)
(*   reading     per process, while it loads: the file as it was when the  *)
(*               process opened it, and whether another process has        *)
(*               truncated or written it since                             *)
(*   TODAY       per process: the module-level TODAY, set at import        *)
(*   CACHE       per process: CACHE.cache                                  *)
(*   writing     per process: where it is in a Cache.sync called directly, *)
(*               by itself or by __setitem__:                              *)
(*               "none" (not in sync), "opened" (the file is open and      *)
(*               truncated, nothing written), "partial" (a part of the     *)
(*               pickle is written); whether the file holds other bytes    *)
(*               than those the process has written (mixed); whether no    *)
(*               other process was in sync at the same time (alone); and   *)
(*               what lastSet will record when the sync completes          *)
(* and, of the call of fetch that process 1 is in:                         *)
(*   pc          "idle", "loop" (at the while test), "http" (in the retry  *)
(*               loop of get_json_from_url), "done", "raised"              *)
(*   call        url, args (as the caller passed them) and cache           *)
(*   args, results, pages, this_page, response   the locals of fetch       *)
(*   tries       attempts made by the running get_json_from_url            *)
(*   exc, detail the exception that left fetch and what it carries         *)
(*   where       the call that raised it                                   *)
(*   last_updated  results.last_updated                                    *)
(*   api         the remote server                                         *)
(* History, for the statement of the properties:                           *)
(*   log         one entry per call of get_response in this call of fetch  *)
(*   attempts    what each requests.get of the last get_json_from_url did  *)
(*   calls       number of calls of fetch the process has made             *)
(*   prev        the last call of fetch with cache=True that returned, or  *)
(*               raised an API error or an unexpected-response error: its  *)
(*               result or error, the cache entries it used, the day it    *)
(*               ended, whether the process is still the same and whether  *)
(*               every body of the call came over HTTP                     *)
(*   used        the cache entries this call of fetch has read or written  *)
(*   warm        at the call, every entry prev used was in CACHE unchanged *)
(*   before      CACHE.cache and the file at the call of fetch             *)
(*   stores      number of writes of the file, by Cache.__setitem__ called *)
(*               directly or by something else                             *)
(*   runs        number of process starts                                  *)
(*   lastSet     the last write of the file, if a successful __setitem__   *)
(*               called directly: its key, the day it was called, the      *)
(*               process that made it, whether no other sync ran during it *)
(*               and no entry was set in its memory since, and the key and *)
(*               process of the successful __setitem__ that had written    *)
(*               the file when it was called, if one had, with whether the *)
(*               process then held that key                                *)
(*   fresh       per process: CACHE is as __init__ built it, from the file *)
(*               as it is, read with no other process writing it           *)
(* For the derivation of the cache key alone:                              *)
(*   reqs        two requests (url and args) handed to get_response        *)
(*   keys        the key get_response built for each, once it has          *)
(***************************************************************************)
VARIABLES day, file, written, alive, TODAY, CACHE, reading, writing,
          pc, call, args, results, pages, this_page, response, tries,
          exc, where, detail, last_updated, api,
          log, attempts, calls, prev, used, warm, before, stores, runs, lastSet, fresh,
          reqs, keys

envVars == <<day, file, written>>
procVars == <<alive, TODAY, CACHE, reading, writing>>
fetchVars == <<pc, call, args, results, pages, this_page, response, tries,
               exc, where, detail, last_updated, api>>
histVars == <<log, attempts, calls, prev, used, warm, before, stores, runs, lastSet, fresh>>
keyVars == <<reqs, keys>>
vars == <<envVars, procVars, fetchVars, histVars, keyVars>>

MaxCalls == 2
MaxReq == MaxPages + 1

Urls == {"u1", "u2"}
FetchUrls == {"u1"}

\* The args a caller passes: None, or a dict.
ArgNone == [none |-> TRUE, d |-> <<>>]
ArgDict(d) == [none |-> FALSE, d |-> d]

CallerArgs ==
    {ArgNone,
     ArgDict(<<<<"per_page", PyInt(50)>>, <<"source", PyStr("2")>>,
               <<"page", PyInt(2)>>, <<"format", PyStr("xml")>>>>)}

NoCall == [url |-> "", args |-> ArgNone, cache |-> FALSE]
NoPrev == [valid |-> FALSE, url |-> "", args |-> ArgNone, results |-> <<>>,
           last_updated |-> NoDate, entries |-> EmptyMap, day |-> 0, today |-> 0,
           same |-> FALSE, exc |-> "none", detail |-> JNull, fetched |-> FALSE]
NoSet == [valid |-> FALSE, key |-> <<>>, day |-> 0, by |-> 0, clean |-> FALSE,
          prior |-> <<>>, priorBy |-> 0, priorHeld |-> FALSE]

\* A process that is not in Cache.__init__.
NoRead == [seen |-> File("absent", EmptyMap), torn |-> FALSE]

\* A process that is not in Cache.sync.
NoWrite == [at |-> "none", mixed |-> FALSE, alone |-> TRUE, key |-> <<>>, day |-> 0,
            prior |-> <<>>, priorBy |-> 0, held |-> FALSE]

\* A process has opened the file in a sync; key is the key its __setitem__
\* has set (none when sync was called alone), last the record of the write
\* before it, cache the memory of the process before the call, and alone
\* says that no other process is in sync.
Opened(key, today, last, cache, alone) ==
    [at |-> "opened", mixed |-> FALSE, alone |-> alone, key |-> key, day |-> today,
     prior |-> IF last.valid THEN last.key ELSE <<>>,
     priorBy |-> IF last.valid THEN last.by ELSE 0,
     held |-> last.valid /\ last.key \in DOMAIN cache]

\* The record of the store that the sync w of process p has completed.
Stored(p, w) ==
    IF w.key = <<>> THEN NoSet
    ELSE [valid |-> TRUE, key |-> w.key, day |-> w.day, by |-> p,
          clean |-> w.alone, prior |-> w.prior, priorBy |-> w.priorBy,
          priorHeld |-> w.held]

NoRequest == [url |-> "", args |-> <<>>]
NoKey == <<>>

InitCommon ==
    /\ day = 1
    /\ file = File("absent", EmptyMap)
    /\ written = {}
    /\ alive = [p \in Procs |-> "none"]
    /\ TODAY = [p \in Procs |-> 0]
    /\ CACHE = [p \in Procs |-> EmptyMap]
    /\ reading = [p \in Procs |-> NoRead]
    /\ writing = [p \in Procs |-> NoWrite]
    /\ pc = "idle"
    /\ call = NoCall
    /\ args = <<>>
    /\ results = <<>>
    /\ pages = JInt(0)
    /\ this_page = JInt(1)
    /\ response = JNull
    /\ tries = 0
    /\ exc = "none"
    /\ where = "none"
    /\ detail = JNull
    /\ last_updated = NoDate
    /\ log = <<>>
    /\ attempts = <<>>
    /\ calls = 0
    /\ prev = NoPrev
    /\ used = EmptyMap
    /\ warm = FALSE
    /\ before = [cache |-> EmptyMap, file |-> File("absent", EmptyMap)]
    /\ stores = 0
    /\ runs = 0
    /\ lastSet = NoSet
    /\ fresh = [p \in Procs |-> FALSE]
    /\ keys = [i \in {1, 2} |-> NoKey]

Init == InitCommon /\ api \in Apis /\ reqs = [i \in {1, 2} |-> NoRequest]

(***************************************************************************)
(* Process start and end, and the passing of days.                         *)
(***************************************************************************)
\* The stores that bytes taken from the pickles of the stores in S can
\* make.  A pickle holds, entry after entry, the bytes of the key, of the
\* date and of the body; a file or a read made of bytes of several pickles
\* that is a pickle loads as entries whose key, date and body each come
\* from one of them (two urls, two dates or two bodies of the model differ
\* in one byte at most, so bytes of the two make one of the two).
Mixes(S) ==
    LET K == UNION {DOMAIN t : t \in S}
        Dates == UNION {{t[k][1] : k \in DOMAIN t} : t \in S}
        Bodies == UNION {{t[k][2] : k \in DOMAIN t} : t \in S}
        E == {<<d, b>> : d \in Dates, b \in Bodies}
    IN  {m \in UNION {[D -> E] : D \in SUBSET K} : m \in S \/ DOMAIN m # {}}

\* import wbdata.fetcher, up to the open of the cache file: line 20 sets
\* TODAY, line 66 calls Cache(), whose line 39 makes the directory (dir is
\* what it meets) and whose line 41 opens the file.  An exception of line
\* 39 leaves __init__ and the import fails.  An open that raises ends the
\* load at once, at line 47.
Import(p, dir) ==
    /\ alive[p] = "none"
    /\ runs < MaxRuns
    /\ runs' = runs + 1
    /\ calls' = IF p = 1 THEN 0 ELSE calls
    /\ TODAY' = [TODAY EXCEPT ![p] = day]
    /\ IF MkdirError(dir) # "none" \/ LoadError(file) = "IOError"
       THEN /\ alive' = [alive EXCEPT ![p] = IF Cache_init(dir, file, day).raised = "none"
                                              THEN "up" ELSE "nodir"]
            /\ CACHE' = [CACHE EXCEPT ![p] = Cache_init(dir, file, day).cache]
            /\ fresh' = [fresh EXCEPT ![p] = MkdirError(dir) = "none"]
            /\ UNCHANGED reading
       ELSE /\ alive' = [alive EXCEPT ![p] = "loading"]
            /\ reading' = [reading EXCEPT ![p] = [seen |-> file, torn |-> FALSE]]
            /\ UNCHANGED <<CACHE, fresh>>
    /\ UNCHANGED <<envVars, writing, fetchVars, log, attempts, prev, used, warm, before,
                   stores, lastSet>>
    /\ UNCHANGED keyVars

\* What the reads of pickle.load meet.  "seen": the file as it was at the
\* open.  When another process has truncated or written the file between
\* the open and the last read: "now", the file as it has become; "eof",
\* the end of the file where an opcode is to start (EOFError);
\* "unpickling", bytes that are no pickle or end inside an opcode
\* (UnpicklingError); "memory", bytes taken for a length larger than the
\* memory (MemoryError); "mixed", bytes of the pickle it was and bytes of
\* the pickle it has become that make a pickle.
LoadOutcomes == {"seen", "now", "eof", "unpickling", "memory", "mixed"}

\* Cache.__init__ from pickle.load to its end: lines 42-48.  Line 39 has
\* made the directory.
Load(p, how) ==
    /\ alive[p] = "loading"
    /\ LET r == reading[p]
           Done(c) ==
               /\ alive' = [alive EXCEPT ![p] = IF c.raised = "none" THEN "up" ELSE "crashed"]
               /\ CACHE' = [CACHE EXCEPT ![p] = c.cache]
       IN  /\ CASE how = "seen" -> Done(Cache_init("ok", r.seen, TODAY[p]))
                [] how = "now" ->
                      /\ r.torn /\ file # r.seen /\ LoadError(file) # "IOError"
                      /\ Done(Cache_init("ok", file, TODAY[p]))
                [] how = "eof" ->
                      /\ r.torn
                      /\ Done(Cache_init("ok", File("empty", EmptyMap), TODAY[p]))
                [] how = "unpickling" ->
                      /\ r.torn
                      /\ Done(Cache_init("ok", File("truncated", EmptyMap), TODAY[p]))
                [] how = "memory" ->
                      /\ r.torn
                      /\ Done(Cache_init("ok", File("overlong", EmptyMap), TODAY[p]))
                [] how = "mixed" ->
                      /\ r.torn /\ r.seen.kind = "ok" /\ file.kind = "ok"
                      /\ \E m \in Mixes({r.seen.store, file.store})
                                    \ {r.seen.store, file.store} :
                             Done(Cache_init("ok", File("ok", m), TODAY[p]))
           /\ fresh' = [fresh EXCEPT ![p] = ~ r.torn]
    /\ reading' = [reading EXCEPT ![p] = NoRead]
    /\ UNCHANGED <<envVars, TODAY, writing, fetchVars, log, attempts, calls, prev, used,
                   warm, before, stores, runs, lastSet>>
    /\ UNCHANGED keyVars

\* The process ends: its memory is gone, the file stays.
Exit(p) ==
    /\ alive[p] \in {"up", "nodir", "crashed"}
    /\ writing[p] = NoWrite
    /\ p = 1 => pc = "idle"
    /\ alive' = [alive EXCEPT ![p] = "none"]
    /\ CACHE' = [CACHE EXCEPT ![p] = EmptyMap]
    /\ TODAY' = [TODAY EXCEPT ![p] = 0]
    /\ fresh' = [fresh EXCEPT ![p] = FALSE]
    /\ prev' = IF p = 1 THEN [prev EXCEPT !.same = FALSE] ELSE prev
    /\ UNCHANGED <<envVars, reading, writing, fetchVars, log, attempts, calls, used,
                   warm, before, stores, runs, lastSet>>
    /\ UNCHANGED keyVars

\* Midnight.  TODAY of a running process stays what it was at import.  Days
\* are counted from the day of the first import, which is day 1.  A call of
\* fetch, a load and a sync are short: the day does not change before
\* they end (none reads the day: the dates they use are TODAY).
Tick ==
    /\ day < MaxDay
    /\ runs > 0
    /\ pc = "idle"
    /\ \A p \in Procs : alive[p] # "loading" /\ writing[p] = NoWrite
    /\ day' = day + 1
    /\ UNCHANGED <<file, written, procVars, fetchVars, histVars>>
    /\ UNCHANGED keyVars

(***************************************************************************)
(* fetch, in process 1.                                                    *)
(***************************************************************************)
\* The page a request asks the server for.
PageOf(a) == IF "page" \in DictNames(a) THEN DictGet(a, "page").v ELSE 1

\* A fetch that sets format and per_page only when the caller gave none.
FirstArgs_setdefault(cargs) ==
    LET a == IF cargs.none THEN <<>> ELSE cargs.d
        b == IF "format" \in DictNames(a) THEN a ELSE DictSet(a, "format", PyStr("json"))
    IN  IF "per_page" \in DictNames(b) THEN b ELSE DictSet(b, "per_page", PyInt(PER_PAGE))

\* Lines 115-120: the args of the first request.
FirstArgs(cargs) ==
    DictSet(DictSet(IF cargs.none THEN <<>> ELSE cargs.d, "format", PyStr("json")),
            "per_page", PyInt(PER_PAGE))

\* A get_response that takes from the cache only what is fewer than EXP
\* days old on the day of the lookup.
CacheHit_if_unexpired(cache_flag, cache, key) ==
    cache_flag /\ Cache_contains(cache, key) /\ day - cache[key][1] < EXP

\* A get_response that reads the cache whatever the flag says.
CacheHit_ignores_flag(cache_flag, cache, key) == Cache_contains(cache, key)

\* get_response, line 96: the body is taken from CACHE.
CacheHit(cache_flag, cache, key) == cache_flag /\ Cache_contains(cache, key)

\* get_response, line 100: the body fetched is stored.
CacheStore(cache_flag) == cache_flag

\* That every entry the previous cached fetch used is in cache as it was.
Kept(cache, entries) ==
    \A k \in DOMAIN entries : k \in DOMAIN cache /\ cache[k] = entries[k]

\* fetch(url, args, cache) is called: lines 115-122.
CallFetch(u, a, c) ==
    /\ pc = "idle"
    /\ alive[1] = "up"
    /\ calls < MaxCalls
    /\ call' = [url |-> u, args |-> a, cache |-> c]
    /\ args' = FirstArgs(a)
    /\ results' = <<>>
    /\ pages' = JInt(0)
    /\ this_page' = JInt(1)
    /\ response' = JNull
    /\ tries' = 0
    /\ exc' = "none"
    /\ where' = "none"
    /\ detail' = JNull
    /\ last_updated' = NoDate
    /\ pc' = "loop"
    /\ log' = <<>>
    /\ attempts' = <<>>
    /\ used' = EmptyMap
    /\ warm' = Kept(CACHE[1], prev.entries)
    /\ before' = [cache |-> CACHE[1], file |-> file]
    /\ UNCHANGED <<envVars, procVars, api, calls, prev, stores, runs, lastSet, fresh>>
    /\ UNCHANGED keyVars

\* An exception leaves fetch.
Raised(e, w, d) ==
    /\ pc' = "raised"
    /\ exc' = e
    /\ where' = w
    /\ detail' = d
    /\ UNCHANGED <<call, args, results, pages, this_page, response, last_updated, api>>

\* Line 102 and lines 125-142: the body is parsed and taken into the walk.
TakeBody(body) ==
    LET parsed == json_loads(body) IN
    IF parsed.exc # "none" THEN Raised(parsed.exc, "json.loads", JNull)
    ELSE LET st == PageStep(results, parsed.val) IN
         IF st.exc # "none" THEN Raised(st.exc, "fetch", st.detail)
         ELSE LET n == int(st.this_page) IN
              IF n.exc # "none" THEN Raised(n.exc, "int", JNull)
              ELSE /\ response' = parsed.val
                   /\ results' = st.results
                   /\ this_page' = st.this_page
                   /\ pages' = st.pages
                   /\ args' = DictSet(args, "page", PyInt(n.n + 1))
                   /\ pc' = "loop"
                   /\ UNCHANGED <<call, exc, where, detail, last_updated, api>>

LogEntry(a, src, body) == [args |-> a, src |-> src, body |-> body]

\* Lines 123-124 and 95-97: the loop goes on and get_response finds the key
\* in CACHE.
GetResponseHit ==
    /\ pc = "loop"
    /\ ~ PyEq(pages, this_page)
    /\ Len(log) < MaxReq
    /\ LET key == CacheKey(call.url, args) IN
       /\ CacheHit(call.cache, CACHE[1], key)
       /\ log' = Append(log, LogEntry(args, "cache", Cache_getitem(CACHE[1], key)))
       /\ used' = MapPut(used, key, CACHE[1][key])
       /\ TakeBody(Cache_getitem(CACHE[1], key))
    /\ tries' = 0
    /\ attempts' = <<>>
    /\ UNCHANGED <<envVars, procVars, calls, prev, warm, before, stores, runs, lastSet, fresh>>
    /\ UNCHANGED keyVars

\* Lines 123-124, 95-99: the loop goes on, get_response does not use the
\* cache and calls get_json_from_url.
GetResponseMiss ==
    /\ pc = "loop"
    /\ ~ PyEq(pages, this_page)
    /\ Len(log) < MaxReq
    /\ ~ CacheHit(call.cache, CACHE[1], CacheKey(call.url, args))
    /\ log' = Append(log, LogEntry(args, "pending", Malformed))
    /\ tries' = 0
    /\ attempts' = <<>>
    /\ pc' = "http"
    /\ UNCHANGED <<envVars, procVars, call, args, results, pages, this_page, response,
                   exc, where, detail, last_updated, api, calls, prev, used, warm, before,
                   stores, runs, lastSet, fresh>>
    /\ UNCHANGED keyVars

\* What one requests.get does: "conn", it raises requests.ConnectionError;
\* "other", it raises another exception; "ok", it returns the response of
\* the server; "status", it returns a response with a non-success HTTP
\* status, of which line 79 takes the text like that of any other.
GetOutcomes == {"conn", "other", "ok", "status"}

\* A retry loop that goes on after any exception of requests.get.
Retried_any_exception(o) == o \in {"conn", "other"}

\* Lines 80-81: the exception the retry loop catches.
Retried(o) == o = "conn"

\* Lines 77-83: one requests.get of the retry loop, with outcome o.  io is
\* what the storage does if the body is then stored (lines 100-101).
HttpGet(o, io) ==
    /\ pc = "http"
    /\ tries < TRIES
    /\ tries' = tries + 1
    /\ attempts' = Append(attempts, o)
    /\ CASE Retried(o) ->
              /\ IF tries + 1 = TRIES
                 THEN Raised(ConnectivityError, "get_json_from_url", JNull)
                 ELSE UNCHANGED <<pc, call, args, results, pages, this_page, response,
                                  exc, where, detail, last_updated, api>>
              /\ UNCHANGED <<envVars, procVars, log, used, lastSet, fresh>>
         [] o = "other" ->
              /\ Raised("RequestException", "requests.get", JNull)
              /\ UNCHANGED <<envVars, procVars, log, used, lastSet, fresh>>
         [] o \in {"ok", "status"} ->
              LET body == Api(api, PageOf(args))
                  key == CacheKey(call.url, args)
                  st == Cache_setitem(CACHE[1], key, body, TODAY[1], file, io)
              IN  /\ log' = [log EXCEPT ![Len(log)] = LogEntry(args, "http", body)]
                  /\ IF CacheStore(call.cache)
                     THEN /\ CACHE' = [CACHE EXCEPT ![1] = st.cache]
                          /\ file' = st.file
                          /\ UNCHANGED written
                          /\ fresh' = [p \in Procs |-> FALSE]
                          /\ IF st.raised # "none"
                             THEN /\ Raised(st.raised, "Cache.sync", JNull)
                                  /\ used' = used
                             ELSE /\ TakeBody(body)
                                  /\ used' = MapPut(used, key, st.cache[key])
                     ELSE /\ io = "ok"
                          /\ TakeBody(body)
                          /\ UNCHANGED <<CACHE, file, written, fresh, used>>
                  /\ UNCHANGED <<day, alive, TODAY, reading, writing, lastSet>>
    /\ UNCHANGED <<calls, prev, warm, before, stores, runs>>
    /\ UNCHANGED keyVars

\* Lines 123 and 143-153: the loop ends; the ids are stripped and
\* last_updated is set.
FetchFinish ==
    /\ pc = "loop"
    /\ PyEq(pages, this_page)
    /\ LET st == StripIds(results)
           lu == LastUpdated(response)
       IN  IF st.exc # "none" THEN Raised(st.exc, "strip", JNull)
           ELSE IF lu.exc # "none" THEN Raised(lu.exc, "strptime", JNull)
           ELSE /\ results' = st.results
                /\ last_updated' = lu.date
                /\ pc' = "done"
                /\ UNCHANGED <<call, args, pages, this_page, response, exc, where, detail, api>>
    /\ tries' = 0
    /\ attempts' = <<>>
    /\ UNCHANGED <<envVars, procVars, log, calls, prev, used, warm, before, stores,
                   runs, lastSet, fresh>>
    /\ UNCHANGED keyVars

\* The errors fetch raises for a response it has parsed (lines 132-140).
ResponseErrors == {ApiError, UnexpectedResponse}

\* The caller has the result, or the exception; the locals of fetch are gone.
Return ==
    /\ pc \in {"done", "raised"}
    /\ pc' = "idle"
    /\ calls' = calls + 1
    /\ prev' = IF call.cache /\ (pc = "done" \/ exc \in ResponseErrors)
               THEN [valid |-> TRUE, url |-> call.url, args |-> call.args,
                     results |-> results, last_updated |-> last_updated,
                     entries |-> used, day |-> day, today |-> TODAY[1],
                     same |-> TRUE, exc |-> exc, detail |-> detail,
                     fetched |-> \A i \in DOMAIN log : log[i].src = "http"]
               ELSE prev
    /\ call' = NoCall
    /\ args' = <<>>
    /\ results' = <<>>
    /\ pages' = JInt(0)
    /\ this_page' = JInt(1)
    /\ response' = JNull
    /\ tries' = 0
    /\ exc' = "none"
    /\ where' = "none"
    /\ detail' = JNull
    /\ last_updated' = NoDate
    /\ log' = <<>>
    /\ attempts' = <<>>
    /\ used' = EmptyMap
    /\ warm' = FALSE
    /\ before' = [cache |-> EmptyMap, file |-> File("absent", EmptyMap)]
    /\ UNCHANGED <<envVars, procVars, api, stores, runs, lastSet, fresh>>
    /\ UNCHANGED keyVars

Fetch ==
    \/ \E u \in FetchUrls, a \in CallerArgs, c \in BOOLEAN : CallFetch(u, a, c)
    \/ GetResponseHit
    \/ GetResponseMiss
    \/ \E o \in GetOutcomes, io \in SyncOutcomes : HttpGet(o, io)
    \/ FetchFinish
    \/ Return

\* The process starts once, with no cache file yet: the open of line 41
\* raises and the load ends there.
Next ==
    \/ \E dir \in DirOutcomes : Import(1, dir)
    \/ Fetch

Spec == Init /\ [][Next]_vars

(***************************************************************************)
(* Process runs over several days, against a server chosen among DayApis.  *)
(***************************************************************************)
DayApis ==
    {[kind |-> "wb", n |-> 2], [kind |-> "err2", n |-> 2], [kind |-> "emptymsg", n |-> 2]}

InitDays == InitCommon /\ api \in DayApis /\ reqs = [i \in {1, 2} |-> NoRequest]

NextDays ==
    \/ \E dir \in DirOutcomes : Import(1, dir)
    \/ \E how \in LoadOutcomes : Load(1, how)
    \/ Exit(1)
    \/ Tick
    \/ CallFetch("u1", ArgNone, TRUE)
    \/ GetResponseHit
    \/ GetResponseMiss
    \/ \E io \in SyncOutcomes : HttpGet("ok", io)
    \/ FetchFinish
    \/ Return

SpecDays == InitDays /\ [][NextDays]_vars

(***************************************************************************)
(* The Cache class used directly by two processes.                         *)
(***************************************************************************)
CacheKeys == {CacheKey(u, FirstArgs(ArgNone)) : u \in Urls}
\* The bodies stored: the cache keeps a body as it is given and never looks
\* into it, so one that is no JSON stands for any.
CacheBodies == {Malformed}

\* The loads in progress, after a process has truncated or written the
\* file.
Torn ==
    [q \in Procs |-> IF alive[q] = "loading" THEN [reading[q] EXCEPT !.torn = TRUE]
                     ELSE reading[q]]

\* The syncs in progress after process p has opened the file, which
\* truncates it, and is at w.  A process that had written bytes has its
\* position beyond the end of the file; one that had written none has it
\* at the end of the file, which is empty.
AfterOpen(p, w) ==
    [q \in Procs |->
        IF q = p THEN w
        ELSE IF writing[q].at = "none" THEN writing[q]
        ELSE [writing[q] EXCEPT !.alone = FALSE, !.mixed = (writing[q].at = "partial")]]

\* The syncs in progress after process p has written bytes and is at w:
\* the file holds bytes that the others have not written.
AfterWrite(p, w) ==
    [q \in Procs |->
        IF q = p THEN w
        ELSE IF writing[q].at = "none" THEN writing[q]
        ELSE [writing[q] EXCEPT !.alone = FALSE, !.mixed = TRUE]]

\* A process other than p is in sync.
InSync(p) == \E q \in Procs \ {p} : writing[q].at # "none"

\* What the open of a sync may do.
OpenOutcomes == {"ok", "openfail"}

\* What one write(2) of pickle.dump may do: "ok", all that is left of the
\* pickle is written and the file is closed; "part", a part of it is
\* written and more is to come; "writenone", it raises an IOError and
\* writes nothing, which ends the sync.
WriteOutcomes == {"ok", "part", "writenone"}

\* The stores whose pickles have bytes in the file once process p has
\* written into it: those that had since the file was last truncated,
\* whether the sync that wrote them has ended, failed or goes on, and its
\* own.
Sources(p) == written \cup {CACHE[p]}

\* What a file made of bytes of several pickles is to a load: no pickle,
\* bytes taken for a length larger than the memory, or a pickle of keys,
\* dates and bodies of these pickles.
Mixtures(p) ==
    {File("garbage", EmptyMap), File("overlong", EmptyMap)}
        \cup {File("ok", m) : m \in Mixes(Sources(p))}

\* The file after a write(2) of the sync of process p.  A sync whose bytes
\* are alone in the file leaves its pickle, whole or cut at the end of a
\* frame or inside one.  So does one that writes its whole pickle at once
\* from the start of the file: what lies beyond the pickle is not read.
WriteResults(p, io) ==
    LET w == writing[p] IN
    CASE io = "ok" ->
            IF w.at = "opened" \/ ~ w.mixed
            THEN {SyncDump(CACHE[p], file, "ok").file}
            ELSE Mixtures(p)
      [] io = "part" ->
            IF ~ w.mixed
            THEN {SyncDump(CACHE[p], file, "writecut").file,
                  SyncDump(CACHE[p], file, "writefail").file}
            ELSE Mixtures(p) \cup {File("boundary", EmptyMap)}
      [] io = "writenone" -> {SyncDump(CACHE[p], file, "writenone").file}

\* CACHE[key] = value in process p, up to the open of the file in sync:
\* line 54, and line 61.
SetItem(p, key, value, io) ==
    /\ alive[p] = "up"
    /\ writing[p] = NoWrite
    /\ stores < MaxStores
    /\ LET st == Cache_setitem(CACHE[p], key, value, TODAY[p], file, io)
           o == SyncOpen(file, io)
       IN  /\ CACHE' = [CACHE EXCEPT ![p] = st.cache]
           /\ file' = o.file
           /\ IF o.raised = "none"
              THEN /\ writing' = AfterOpen(p, Opened(key, day, lastSet, CACHE[p],
                                                     \A q \in Procs : writing[q].at = "none"))
                   /\ reading' = Torn
                   /\ written' = {}
                   /\ lastSet' = NoSet
              ELSE /\ UNCHANGED <<reading, writing, written>>
                   /\ lastSet' = [lastSet EXCEPT !.clean = FALSE]
    /\ stores' = stores + 1
    /\ fresh' = [q \in Procs |-> FALSE]
    /\ UNCHANGED <<day, alive, TODAY, fetchVars, log, attempts, calls, prev, used, warm, before, runs>>
    /\ UNCHANGED keyVars

\* CACHE.sync() called by itself in process p, up to the open of the file:
\* line 61.  No entry is set and none is dated.
Sync(p, io) ==
    /\ alive[p] = "up"
    /\ writing[p] = NoWrite
    /\ stores < MaxStores
    /\ LET o == SyncOpen(file, io) IN
       /\ file' = o.file
       /\ IF o.raised = "none"
          THEN /\ writing' = AfterOpen(p, Opened(<<>>, day, lastSet, CACHE[p],
                                                 \A q \in Procs : writing[q].at = "none"))
               /\ reading' = Torn
               /\ written' = {}
               /\ lastSet' = NoSet
               /\ fresh' = [q \in Procs |-> FALSE]
          ELSE UNCHANGED <<reading, writing, written, lastSet, fresh>>
    /\ stores' = stores + 1
    /\ UNCHANGED <<day, alive, TODAY, CACHE, fetchVars, log, attempts, calls, prev, used,
                   warm, before, runs>>
    /\ UNCHANGED keyVars

\* Line 62 in process p, whose sync has opened the file: one write(2) of
\* pickle.dump, and with the last one the close.
Write(p, io) ==
    LET w == writing[p] IN
    /\ w.at # "none"
    /\ \E f \in WriteResults(p, io) : file' = f
    /\ IF io = "writenone"
       THEN /\ writing' = [writing EXCEPT ![p] = NoWrite]
            /\ written' = IF InSync(p) THEN written ELSE {}
            /\ UNCHANGED <<reading, lastSet, fresh>>
       ELSE /\ written' = IF io = "part" \/ InSync(p) THEN Sources(p) ELSE {}
            /\ writing' = AfterWrite(p, IF io = "ok" THEN NoWrite
                                         ELSE [w EXCEPT !.at = "partial"])
            /\ reading' = Torn
            /\ lastSet' = IF io = "ok" THEN Stored(p, w) ELSE NoSet
            /\ fresh' = [q \in Procs |-> FALSE]
    /\ UNCHANGED <<day, alive, TODAY, CACHE, fetchVars, log, attempts, calls, prev, used,
                   warm, before, stores, runs>>
    /\ UNCHANGED keyVars

\* Something else changes the file while no process reads or writes it: it
\* is removed, made unreadable, emptied, or overwritten with bytes that are
\* no pickle of a dict of pairs.
Damage(kind) ==
    /\ file.kind = "ok"
    /\ \A q \in Procs : alive[q] # "loading" /\ writing[q] = NoWrite
    /\ stores < MaxStores
    /\ stores' = stores + 1
    /\ file' = File(kind, EmptyMap)
    /\ lastSet' = NoSet
    /\ fresh' = [q \in Procs |-> FALSE]
    /\ UNCHANGED <<day, written, procVars, fetchVars, log, attempts, calls, prev, used, warm,
                   before, runs>>
    /\ UNCHANGED keyVars

InitCache ==
    InitCommon /\ api = [kind |-> "wb", n |-> 1] /\ reqs = [i \in {1, 2} |-> NoRequest]

NextCache ==
    \/ \E p \in Procs, dir \in DirOutcomes : Import(p, dir)
    \/ \E p \in Procs, how \in LoadOutcomes : Load(p, how)
    \/ Tick
    \/ \E p \in Procs, k \in CacheKeys, b \in CacheBodies, io \in OpenOutcomes :
            SetItem(p, k, b, io)
    \/ \E p \in Procs, io \in OpenOutcomes : Sync(p, io)
    \/ \E p \in Procs, io \in WriteOutcomes : Write(p, io)
    \/ \E kind \in FileKinds \ {"ok", "truncated"} : Damage(kind)

SpecCache == InitCache /\ [][NextCache]_vars

(***************************************************************************)
(* Properties.                                                             *)
(***************************************************************************)
LastLog == log[Len(log)]

\* The document of a body that is JSON.
Doc(body) == body.doc

\* The body is JSON of the form [envelope, records] with page = k and
\* pages = n, both numbers, and a list of records.
IsPageOf(body, k, n) ==
    /\ body.wf
    /\ Doc(body).t = "list"
    /\ Len(Doc(body).v) = 2
    /\ Doc(body).v[1].t = "dict"
    /\ {"page", "pages"} \subseteq DOMAIN Doc(body).v[1].v
    /\ PyEq(Doc(body).v[1].v["page"], JInt(k))
    /\ PyEq(Doc(body).v[1].v["pages"], JInt(n))
    /\ Doc(body).v[2].t = "list"

\* Every request of the walk so far was answered, the k-th with page k of n.
AnsweredPages(n) ==
    /\ log # <<>>
    /\ \A i \in DOMAIN log : log[i].src # "pending" /\ IsPageOf(log[i].body, i, n)

RECURSIVE RecordsUpTo(_)
RecordsUpTo(i) ==
    IF i = 0 THEN <<>> ELSE RecordsUpTo(i - 1) \o Doc(log[i].body).v[2].v

\* The page a request names: none on the first (page 1 it is), i on the i-th.
RequestsInOrder ==
    \A i \in DOMAIN log : PageOf(log[i].args) = i

\* C1: pagination completeness.  When the API answers the k-th request with
\* page k of N, fetch issues exactly the N requests for pages 1..N in order
\* and returns the records of pages 1..N in page order (ids stripped), none
\* twice, none dropped.
C1_PaginationComplete ==
    \A n \in 1..MaxPages :
        (call.args.none /\ AnsweredPages(n)) =>
            /\ Len(log) <= n
            /\ RequestsInOrder
            /\ pc # "raised"
            /\ pc = "done" => /\ Len(log) = n
                              /\ results = StripIds(RecordsUpTo(n)).results

\* C2: bounded retry.  get_json_from_url makes at most 5 GETs, one more only
\* after a connectivity error; the first GET that is answered ends the call
\* with the body of that answer; five connectivity errors end it with the
\* connectivity error and no body.
C2_BoundedRetry ==
    /\ Len(attempts) <= 5
    /\ \A i \in 1..(Len(attempts) - 1) : attempts[i] = "conn"
    /\ (attempts # <<>> /\ attempts[Len(attempts)] = "ok") =>
            /\ LastLog.src = "http"
            /\ LastLog.body = Api(api, PageOf(LastLog.args))
            /\ pc # "http"
    /\ (Len(attempts) = 5 /\ \A i \in 1..5 : attempts[i] = "conn") =>
            /\ pc = "raised" /\ exc = ConnectivityError
            /\ LastLog.src = "pending"
    /\ (pc = "raised" /\ exc = ConnectivityError) =>
            /\ Len(attempts) = 5 /\ \A i \in 1..5 : attempts[i] = "conn"

\* Two connectivity errors, then the answer on the third GET.
C2_Witness ==
    /\ attempts = <<"conn", "conn", "ok">>
    /\ LastLog.src = "http"
    /\ pc = "loop"

\* C4: cache bypass.  In a call of fetch with cache=False, whatever becomes
\* of it, no body comes from the cache and CACHE and the file stay what they
\* were at the call.
C4_CacheBypass ==
    (pc # "idle" /\ ~ call.cache) =>
        /\ \A i \in DOMAIN log : log[i].src # "cache"
        /\ CACHE[1] = before.cache
        /\ file = before.file

\* A call with cache=False has returned; the key of its first request was
\* cached, and the body came from the server.
C4_Witness ==
    /\ pc = "done"
    /\ ~ call.cache
    /\ Cache_contains(CACHE[1], CacheKey(call.url, log[1].args))
    /\ log[1].src = "http"

\* The parsed response has an element 0 with page and pages, and an
\* element 1.
SuccessShape(r) ==
    /\ r.t = "list"
    /\ Len(r.v) >= 2
    /\ r.v[1].t = "dict"
    /\ {"page", "pages"} \subseteq DOMAIN r.v[1].v

\* Element 0 has a message whose first element is a mapping with id, key
\* and value.
ApiErrorShape(r) ==
    /\ r.t = "list"
    /\ Len(r.v) >= 1
    /\ r.v[1].t = "dict"
    /\ "message" \in DOMAIN r.v[1].v
    /\ r.v[1].v["message"].t = "list"
    /\ Len(r.v[1].v["message"].v) >= 1
    /\ r.v[1].v["message"].v[1].t = "dict"
    /\ {"id", "key", "value"} \subseteq DOMAIN r.v[1].v["message"].v[1].v

\* C6: the classification of a parsed response at lines 125-140: success,
\* else the API error with the id, key and value of the message, else the
\* unexpected-response error with the response.
C6_Classification ==
    (/\ log # <<>>
     /\ LastLog.src # "pending"
     /\ LastLog.body.wf
     /\ \/ pc = "loop"
        \/ pc = "raised" /\ where \in {"fetch", "int"}) =>
        LET r == Doc(LastLog.body) IN
        IF SuccessShape(r)
        THEN /\ pc = "loop"
             /\ PyEq(this_page, r.v[1].v["page"])
             /\ PyEq(pages, r.v[1].v["pages"])
        ELSE IF ApiErrorShape(r)
        THEN /\ pc = "raised" /\ exc = ApiError
             /\ detail = JDict([f \in {"id", "key", "value"} |->
                                   r.v[1].v["message"].v[1].v[f]])
        ELSE /\ pc = "raised" /\ exc = UnexpectedResponse
             /\ detail = r

\* C8: a failure to persist the cache does not fail the page fetch.
C8_StoreFailureNonFatal ==
    ~ (pc = "raised" /\ where = "Cache.sync")

\* s has the form YYYY-MM-DD and names a date.
IsYMD(s) ==
    /\ Len(s) = 10
    /\ s[5] = "-" /\ s[8] = "-"
    /\ \A i \in {1, 2, 3, 4, 6, 7, 9, 10} : IsDigit(s[i])
    /\ DecimalVal(SubSeq(s, 6, 7)) \in 1..12
    /\ DecimalVal(SubSeq(s, 9, 10)) \in
          1..DaysInMonth(DecimalVal(SubSeq(s, 1, 4)), DecimalVal(SubSeq(s, 6, 7)))
    /\ DecimalVal(SubSeq(s, 1, 4)) >= 1

\* C9: after the walk, a lastupdated of the last envelope in YYYY-MM-DD
\* form is the last_updated of the result; if it is absent or malformed,
\* fetch returns the records with last_updated None and does not fail.
C9_LastUpdated ==
    /\ ~ (pc = "raised" /\ where = "strptime")
    /\ pc = "done" =>
          LET env == response.v[1].v IN
          IF /\ "lastupdated" \in DOMAIN env
             /\ env["lastupdated"].t = "str"
             /\ IsYMD(env["lastupdated"].v)
          THEN last_updated = <<DecimalVal(SubSeq(env["lastupdated"].v, 1, 4)),
                                DecimalVal(SubSeq(env["lastupdated"].v, 6, 7)),
                                DecimalVal(SubSeq(env["lastupdated"].v, 9, 10))>>
          ELSE last_updated = NoDate

\* The names and values a caller passed.
CallerDict == IF call.args.none THEN <<>> ELSE call.args.d

\* C10: wire parameters.  Every request has format=json and per_page=1000,
\* the caller's other parameters as they were and no further one but page;
\* the first has a page only if the caller gave it, and a later one has the
\* page the previous envelope reported plus one.
C10_WireParameters ==
    \A i \in DOMAIN log :
        LET a == log[i].args IN
        /\ "format" \in DictNames(a) /\ DictGet(a, "format") = PyStr("json")
        /\ "per_page" \in DictNames(a) /\ DictGet(a, "per_page") = PyInt(1000)
        /\ \A nm \in DictNames(CallerDict) \ {"format", "per_page", "page"} :
               nm \in DictNames(a) /\ DictGet(a, nm) = DictGet(CallerDict, nm)
        /\ DictNames(a) \subseteq DictNames(CallerDict) \cup {"format", "per_page", "page"}
        /\ i = 1 => IF "page" \in DictNames(CallerDict)
                    THEN "page" \in DictNames(a)
                         /\ DictGet(a, "page") = DictGet(CallerDict, "page")
                    ELSE "page" \notin DictNames(a)
        /\ i > 1 => /\ "page" \in DictNames(a)
                    /\ DictGet(a, "page") =
                          PyInt(int(Doc(log[i - 1].body).v[1].v["page"]).n + 1)

\* The caller gave format, per_page, page and another parameter, and the
\* walk is at its second request.
C10_Witness ==
    /\ Len(log) = 2
    /\ {"format", "per_page", "page", "source"} \subseteq DictNames(CallerDict)

(***************************************************************************)
(* Claims about the store and its file, under SpecCache.                   *)
(***************************************************************************)
\* C3: TTL invariant.  An entry stored when the current day is D is in the
\* store of a Cache freshly loaded from the file on any day D..D+6 and is
\* not in the store of one freshly loaded on day D+7 or later.
C3_TTLInvariant ==
    \A p \in Procs :
        (alive[p] = "up" /\ fresh[p] /\ lastSet.valid /\ lastSet.clean) =>
            LET age == TODAY[p] - lastSet.day IN
            /\ age \in 0..(EXP - 1) => Cache_contains(CACHE[p], lastSet.key)
            /\ age >= EXP => ~ Cache_contains(CACHE[p], lastSet.key)

\* C7: constructing the Cache never raises, and a file that is absent,
\* unreadable, cut short or no pickle of a dict of pairs gives an empty
\* store.
C7_LoadNeverFails ==
    \A p \in Procs :
        /\ alive[p] # "crashed"
        /\ (alive[p] = "up" /\ fresh[p] /\ file.kind # "ok") => CACHE[p] = EmptyMap

(***************************************************************************)
(* Claims about repeated fetches over days, under SpecDays.                *)
(***************************************************************************)
\* The call in progress repeats the last cached fetch that completed.
Repeats ==
    /\ pc # "idle"
    /\ call.cache
    /\ prev.valid
    /\ prev.exc = "none"
    /\ prev.url = call.url
    /\ prev.args = call.args

\* No body of the call so far came over HTTP.
NoHttp == \A i \in DOMAIN log : log[i].src = "cache"

\* get_response missed on request i, fetched the body and set it in CACHE
\* under the key of the request.
StoredOnMiss ==
    \A i \in DOMAIN log :
        (call.cache /\ log[i].src = "http") =>
            LET key == CacheKey(call.url, log[i].args) IN
            /\ Cache_contains(CACHE[1], key)
            /\ Cache_getitem(CACHE[1], key) = log[i].body

\* The file held, when the repeat was called, every entry the first fetch
\* used.
Persisted == before.file.kind = "ok" /\ Kept(before.file.store, prev.entries)

\* C5 as stated: a repeat of a completed cached fetch, in the same process
\* or in a new process that loads the persisted store fewer than 7 days
\* after the first fetch, makes no HTTP GET and returns the same records; a
\* miss stores the body under the key of the request.  The days are counted
\* between the import dates of the two processes, and the store is taken to
\* hold every entry the first fetch used.
C5_MemoizationAcrossRuns ==
    /\ (Repeats /\ (prev.same \/ (Persisted /\ TODAY[1] - prev.today < EXP))) =>
            /\ NoHttp
            /\ pc = "done" => results = prev.results
    /\ StoredOnMiss

\* Every entry the first fetch used carries a date fewer than 7 days before
\* the import date of this process.
StampsUnexpired ==
    \A k \in DOMAIN prev.entries : TODAY[1] - prev.entries[k][1] < EXP

\* C5, amended: the repeat makes no HTTP GET and returns the same records
\* and last_updated when CACHE holds every entry the first fetch used.  It
\* does in the same process; it does in a new process when the file holds
\* these entries and each is dated fewer than 7 days before the import date
\* of the new process, and it does not when one of them is dated 7 days or
\* more before it.  A miss sets the body in CACHE under the key of the
\* request.
C5_Memoization ==
    /\ (Repeats /\ prev.same) => warm
    /\ (Repeats /\ ~ prev.same /\ Persisted /\ StampsUnexpired) => warm
    /\ (Repeats /\ ~ prev.same /\ ~ StampsUnexpired) => ~ warm
    /\ (Repeats /\ warm) =>
            /\ NoHttp
            /\ pc # "raised"
            /\ pc = "done" => /\ results = prev.results
                              /\ last_updated = prev.last_updated
    /\ StoredOnMiss

\* A new process, started on a later day than the process of the first
\* fetch, has repeated the fetch from the cache alone.
C5_Witness ==
    /\ Repeats
    /\ ~ prev.same
    /\ TODAY[1] > prev.today
    /\ pc = "done"
    /\ Len(log) = 2
    /\ NoHttp
    /\ results = prev.results

(***************************************************************************)
(* Claims about bodies that are no JSON, under Spec.                       *)
(***************************************************************************)
\* C11: malformed JSON is never cached as valid.  A body that json.loads
\* rejects ends get_response with the parse error, and neither CACHE nor
\* the file maps a key to such a body, so no later request is served one
\* from the cache.
C11_MalformedNotCached ==
    /\ (pc = "raised" /\ where = "json.loads") => exc = "JSONDecodeError"
    /\ \A k \in DOMAIN CACHE[1] : Cache_getitem(CACHE[1], k).wf
    /\ file.kind = "ok" => \A k \in DOMAIN file.store : file.store[k][2].wf
    /\ \A i \in DOMAIN log : log[i].src = "cache" => log[i].body.wf

(***************************************************************************)
(* Claims about the end of the walk, under Spec.                           *)
(***************************************************************************)
\* The envelope of the i-th answer of the walk.
Envelope(i) == Doc(log[i].body).v[1].v

\* The walk so far is as C12 supposes: the caller named no page, the i-th
\* request was answered with page i, and the pages reported never grew.
WalkAsSupposed ==
    /\ call.args.none
    /\ log # <<>>
    /\ \A i \in DOMAIN log :
          /\ log[i].src # "pending"
          /\ log[i].body.wf
          /\ SuccessShape(Doc(log[i].body))
          /\ Envelope(i)["page"] = JInt(i)
          /\ Envelope(i)["pages"].t = "int"
    /\ \A i, j \in DOMAIN log : i < j => Envelope(j)["pages"].v <= Envelope(i)["pages"].v

\* C12: termination of the page walk.  When the reported page is the page
\* requested and the reported pages never grow, the walk reaches
\* pages == this_page and stops; as the page then stands at most at the
\* first reported pages, it stops within that many requests.  The loop body
\* runs at least once.
C12_WalkTerminates ==
    /\ pc = "done" => Len(log) >= 1
    /\ WalkAsSupposed => Len(log) <= Envelope(1)["pages"].v

(***************************************************************************)
(* Claims about the load of the Cache, under SpecDays.                     *)
(***************************************************************************)
\* Process p holds the store as Cache.__init__ read it from the file, which
\* has not been written since.
FreshlyLoaded(p) == alive[p] = "up" /\ fresh[p] /\ file.kind = "ok"

\* The age, at the load of process p, of the entry of the file under k.
AgeAtLoad(p, k) == TODAY[p] - file.store[k][1]

\* C13 as stated: the load removes exactly the entries dated more than 7
\* days before the current day; an entry dated 7 or fewer days before it is
\* kept.
C13_LoadKeepsSevenDays ==
    \A p \in Procs :
        FreshlyLoaded(p) =>
            DOMAIN CACHE[p] = {k \in DOMAIN file.store : AgeAtLoad(p, k) <= 7}

\* C13, amended: the load removes exactly the entries dated 7 or more days
\* before the TODAY of the loading process; an entry dated fewer than 7
\* days before it is kept, as it is in the file.
C13_LoadThreshold ==
    \A p \in Procs :
        FreshlyLoaded(p) =>
            /\ DOMAIN CACHE[p] = {k \in DOMAIN file.store : AgeAtLoad(p, k) < 7}
            /\ \A k \in DOMAIN CACHE[p] : CACHE[p][k] = file.store[k]

\* A load has dropped an entry dated exactly 7 days before and kept one
\* dated 6 days before.
C13_Witness ==
    \E p \in Procs :
        /\ FreshlyLoaded(p)
        /\ \E k \in DOMAIN file.store :
              AgeAtLoad(p, k) = 7 /\ ~ Cache_contains(CACHE[p], k)
        /\ \E k \in DOMAIN file.store :
              AgeAtLoad(p, k) = 6 /\ Cache_contains(CACHE[p], k)

(***************************************************************************)
(* The key of get_response alone: two requests, drawn from the urls and    *)
(* from every dict over KeyNames and KeyValues in every insertion order,   *)
(* each given its key.                                                     *)
(***************************************************************************)
KeyNames == {"date", "page", "source"}
KeyValues == {PyInt(1), PyStr("1")}
KeyItems == KeyNames \X KeyValues

\* The dicts: items in insertion order, no name twice.
KeyDicts ==
    UNION {{d \in [1..n -> KeyItems] : \A i, j \in 1..n : i # j => d[i][1] # d[j][1]} :
              n \in 0..Cardinality(KeyNames)}

KeyRequests == [url : Urls, args : KeyDicts]

\* get_response, line 95, for request i.
BuildKey(i) ==
    /\ keys[i] = NoKey
    /\ keys' = [keys EXCEPT ![i] = CacheKey(reqs[i].url, reqs[i].args)]
    /\ UNCHANGED <<envVars, procVars, fetchVars, histVars, reqs>>

InitKey ==
    InitCommon /\ api = [kind |-> "wb", n |-> 1] /\ reqs \in [{1, 2} -> KeyRequests]

NextKey == \E i \in {1, 2} : BuildKey(i)

SpecKey == InitKey /\ [][NextKey]_vars

\* The two dicts hold the same name-value pairs.
SamePairs(a, b) == {a[i] : i \in DOMAIN a} = {b[i] : i \in DOMAIN b}

\* C14: cache key order-independence.  The keys of two requests are equal
\* exactly when the urls are equal and the dicts hold the same name-value
\* pairs, in whatever order they were inserted.
C14_KeyOrderIndependent ==
    (keys[1] # NoKey /\ keys[2] # NoKey) =>
        (keys[1] = keys[2] <=>
            (reqs[1].url = reqs[2].url /\ SamePairs(reqs[1].args, reqs[2].args)))

\* Two requests with the same url and the same three pairs inserted in
\* different orders have been given the same key.
C14_Witness ==
    /\ keys[1] # NoKey
    /\ keys[1] = keys[2]
    /\ Len(reqs[1].args) = 3
    /\ reqs[1].args # reqs[2].args
    /\ SamePairs(reqs[1].args, reqs[2].args)

(***************************************************************************)
(* Claims about the records returned, under Spec.                          *)
(***************************************************************************)
\* The records fetched by the first i requests of the call, as results
\* gathered them.
RECURSIVE FetchedUpTo(_)
FetchedUpTo(i) ==
    IF i = 0 THEN <<>> ELSE FetchedUpTo(i - 1) \o Iterate(Doc(log[i].body).v[2]).items

\* s without its leading and trailing whitespace: from its first to its
\* last character that is no whitespace.
Trimmed(s) ==
    LET inner == {i \in DOMAIN s : s[i] \notin Whitespace} IN
    IF inner = {} THEN <<>>
    ELSE SubSeq(s, CHOOSE i \in inner : \A j \in inner : i <= j,
                   CHOOSE i \in inner : \A j \in inner : j <= i)

\* C15: identifier trimming.  In the result fetch returns, record i is the
\* i-th fetched record; if that has an id, the id is the fetched id without
\* its leading and trailing whitespace and every other field is as fetched;
\* a record without id is as fetched.
C15_IdsTrimmed ==
    pc = "done" =>
        LET fetched == FetchedUpTo(Len(log)) IN
        /\ Len(results) = Len(fetched)
        /\ \A i \in DOMAIN fetched :
              IF fetched[i].t = "dict" /\ "id" \in DOMAIN fetched[i].v
              THEN /\ results[i].t = "dict"
                   /\ DOMAIN results[i].v = DOMAIN fetched[i].v
                   /\ results[i].v["id"] = JStr(Trimmed(fetched[i].v["id"].v))
                   /\ \A f \in DOMAIN fetched[i].v \ {"id"} :
                         results[i].v[f] = fetched[i].v[f]
              ELSE results[i] = fetched[i]

\* A walk of three pages has returned: ids with whitespace at either end,
\* one with whitespace inside, one of whitespace alone, and records without
\* id.
C15_Witness ==
    /\ pc = "done"
    /\ Len(log) = 3
    /\ Len(results) = 5
    /\ results[1].v["id"] = JStr(<<"A">>)
    /\ results[3].v["id"] = JStr(<<"B", " ", "C">>)
    /\ results[5].v["id"] = JStr(<<>>)
    /\ "id" \notin DOMAIN results[2].v

\* Process p made the last successful store, and neither its CACHE nor the
\* file has changed since.
JustStored(p) ==
    lastSet.valid /\ lastSet.by = p /\ lastSet.clean /\ alive[p] = "up" /\ ~ fresh[p]

\* After a successful store the file holds what the memory of the storing
\* process holds, no entry more and none less.
FileIsMemory(p) == file.kind = "ok" /\ file.store = CACHE[p]

\* C16: full-store persistence.  A successful Cache.__setitem__ sets the
\* entry in memory to (ordinal of the current day, body) and rewrites the
\* whole file, so that right after it the file holds exactly the entries of
\* the memory.
C16_FullStorePersistence ==
    \A p \in Procs :
        JustStored(p) =>
            /\ Cache_contains(CACHE[p], lastSet.key)
            /\ CACHE[p][lastSet.key][1] = lastSet.day
            /\ FileIsMemory(p)

(***************************************************************************)
(* Claims about entries that age while a process runs, under SpecDays.     *)
(***************************************************************************)
\* Every request of the call whose key was in CACHE at the call was served
\* from CACHE, whatever the age of the entry.
HitsWhateverAge ==
    \A i \in DOMAIN log :
        (call.cache /\ log[i].src # "cache") =>
            ~ Cache_contains(before.cache, CacheKey(call.url, log[i].args))

\* While a process runs, no entry leaves its CACHE.
NoEntryLeaves ==
    \A p \in Procs :
        (alive[p] = "up" /\ alive'[p] = "up") =>
            \A k \in DOMAIN CACHE[p] : k \in DOMAIN CACHE'[p]

\* C17: expiry is checked only at load.  A lookup never compares the date
\* of an entry with the day: an entry in CACHE is served by every cache hit
\* of the process, also when it is 7 days old or older, and stays in CACHE
\* as long as the process runs.
C17_ExpiryOnlyAtLoad == []HitsWhateverAge /\ [][NoEntryLeaves]_vars

\* A request has been served from CACHE an entry that a fetch of the same
\* process used 7 days or more before the day of the request.
C17_Witness ==
    /\ pc = "loop"
    /\ log # <<>>
    /\ LastLog.src = "cache"
    /\ prev.valid /\ prev.same
    /\ CacheKey(call.url, LastLog.args) \in DOMAIN prev.entries
    /\ day - prev.day >= EXP
    /\ day - CACHE[1][CacheKey(call.url, LastLog.args)][1] >= EXP

\* Process b made the last store, right after a store of another key by
\* another process, and did not hold that key.
StoredOver(b) ==
    /\ JustStored(b)
    /\ lastSet.prior # <<>>
    /\ lastSet.prior # lastSet.key
    /\ lastSet.priorBy # b
    /\ ~ lastSet.priorHeld

\* C18: lost update between processes.  When process A has stored key a
\* and process B, which does not hold a, then stores another key b, the
\* file holds b and not a: the entry A stored is gone from the file.
C18_LostUpdate ==
    \A b \in Procs :
        StoredOver(b) =>
            /\ file.kind = "ok"
            /\ lastSet.key \in DOMAIN file.store
            /\ lastSet.prior \notin DOMAIN file.store

\* Both processes run, A holds the entry it stored, B has stored another
\* key after it, and the file holds no entry under the key of A.
C18_Witness ==
    \E a, b \in Procs :
        /\ a # b
        /\ StoredOver(b)
        /\ lastSet.priorBy = a
        /\ alive[a] = "up"
        /\ Cache_contains(CACHE[a], lastSet.prior)
        /\ lastSet.prior \notin DOMAIN file.store

(***************************************************************************)
(* Claims about failures that are not retried, under Spec.                 *)
(***************************************************************************)
\* Every GET of the request but the last failed to connect: none was made
\* after an answer or after another exception.
OnlyAfterConnectivity ==
    \A i \in 1..(Len(attempts) - 1) : attempts[i] = "conn"

\* An exception of requests.get that is no ConnectionError leaves fetch as
\* it is, and a response with a non-success status is taken as the answer.
NotRetried ==
    /\ (attempts # <<>> /\ attempts[Len(attempts)] = "other") =>
            pc = "raised" /\ exc = "RequestException" /\ where = "requests.get"
    /\ (attempts # <<>> /\ attempts[Len(attempts)] = "status") =>
            /\ pc # "http"
            /\ LastLog.src = "http"
            /\ LastLog.body = Api(api, PageOf(LastLog.args))

\* A body that fails in the page fetch leaves fetch with the failure: the
\* parse error, the API error or the unexpected-response error.
FailsFast ==
    (log # <<>> /\ LastLog.src # "pending" /\ ~ (pc = "raised" /\ where = "Cache.sync")) =>
        /\ ~ LastLog.body.wf => pc = "raised" /\ exc = "JSONDecodeError"
        /\ (LastLog.body.wf /\ ~ SuccessShape(Doc(LastLog.body))
              /\ ApiErrorShape(Doc(LastLog.body))) => pc = "raised" /\ exc = ApiError
        /\ (pc = "raised" /\ where = "fetch" /\ exc = UnexpectedResponse) =>
              ~ SuccessShape(Doc(LastLog.body))

\* Once an exception has left fetch the call makes no GET and no request:
\* the next step hands the exception to the caller.
NothingAfterFailure ==
    pc = "raised" => (pc' = "idle" /\ attempts' = <<>> /\ log' = <<>>)

\* C19: only connectivity failures are retried.  A GET is made again only
\* after a connectivity error; another exception of the transport, a parse
\* error, an API error and an unexpected response end the request and the
\* call without a further GET, and a response with a non-success status is
\* taken as the answer.
C19_OnlyConnectivityRetried ==
    /\ [](OnlyAfterConnectivity /\ NotRetried /\ FailsFast)
    /\ [][NothingAfterFailure]_vars

\* A GET failed to connect, the next raised another exception, and that
\* exception has left fetch.
C19_Witness ==
    /\ attempts = <<"conn", "other">>
    /\ pc = "raised"
    /\ exc = "RequestException"

(***************************************************************************)
(* Claims about error responses in the cache, under SpecDays.              *)
(***************************************************************************)
\* The call in progress repeats the last cached fetch, which failed with an
\* API error or an unexpected-response error.
RepeatsFailed ==
    /\ pc # "idle"
    /\ call.cache
    /\ prev.valid
    /\ prev.exc \in ResponseErrors
    /\ prev.url = call.url
    /\ prev.args = call.args

\* The call has failed with the same error as the fetch it repeats.
SameError == pc = "raised" /\ where = "fetch" /\ exc = prev.exc /\ detail = prev.detail

\* A caching fetch has failed on a response: CACHE holds the body of every
\* request of the call under its key, the failing one included.
ErrorBodiesCached ==
    (pc = "raised" /\ call.cache /\ exc \in ResponseErrors) =>
        \A i \in DOMAIN log :
            LET key == CacheKey(call.url, log[i].args) IN
            /\ Cache_contains(CACHE[1], key)
            /\ Cache_getitem(CACHE[1], key) = log[i].body

\* C20: error responses are cached like any other body.  A caching fetch
\* that fails with an API error or an unexpected-response error leaves the
\* failing body, and the pages before it, cached and persisted under their
\* keys: they are in CACHE and in the file.  A repeat of the fetch within
\* the TTL fails with the same error and makes no HTTP GET.  The TTL of an
\* entry is the EXP days from the day it was stored; the repeats looked at
\* are those of a failed fetch that fetched and stored every body itself,
\* so that day is the day of the failed fetch, and a repeat in a new
\* process is looked at when the file holds the entries as stored.
C20_ErrorResponsesCached ==
    /\ ErrorBodiesCached
    /\ (pc = "raised" /\ call.cache /\ exc \in ResponseErrors) =>
            /\ file.kind = "ok"
            /\ \A i \in DOMAIN log :
                   LET key == CacheKey(call.url, log[i].args) IN
                   /\ key \in DOMAIN file.store
                   /\ file.store[key][2] = log[i].body
    /\ (RepeatsFailed /\ prev.fetched /\ day - prev.day < EXP
          /\ (prev.same \/ Persisted)) =>
            /\ NoHttp
            /\ pc \in {"done", "raised"} => SameError

====
